---------------------------- MODULE Spec2Model ----------------------------
(***************************************************************************)
(* Model of the AM215 Gamma toolkit:                                       *)
(*   50_gamma_mle.py    the estimator   (read TSV, fit, write report)      *)
(*   60_plot_gamma.py   the renderer    (read TSV, histogram, contour)     *)
(*   generate_data.py   the generator   (synthetic review TSV)             *)
(*                                                                         *)
(* Floating-point numbers are modelled as extended fixed-point values:     *)
(* <<"fin", v>> (a finite number, v an integer in the unit of the          *)
(* quantity), <<"nan", 0>>, <<"inf", 1>> and <<"inf", -1>>.  A TSV cell    *)
(* that is not a number is <<"str", 0>>.  Strings the program builds are   *)
(* TLA+ strings or, where emptiness matters, sequences.                    *)
(***************************************************************************)
EXTENDS Integers, Sequences, FiniteSets, TLC

VARIABLES
    script,     \* which script this process runs
    pc,         \* position in the script's main
    header,     \* the TSV's columns, in file order: [name, numeric]
    argcol,     \* --col
    col,        \* the column main selected
    x,          \* the sample (coerced column, then filtered sample)
    fit,        \* the estimator's (k, theta, n, mean), or <<>>
    kArg,       \* the renderer's --k     (unit 1/KU), once read
    thArg,      \* the renderer's --theta (unit 1/TU), once read
    grid,       \* plot_ll_contour's K, T, z and the array given to contour
    fs,         \* the output artifacts on disk
    out,        \* lines printed on standard output
    run,        \* generator: which invocation this is (0: none)
    hfToken,    \* generator: whether HF_API_TOKEN is set in this process
    params,     \* generator: seed and the four row counts
    rng,        \* generator: state of random.Random(seed)
    lifespans,  \* generator: the lifespans of the pass being written
    idx,        \* generator: loop index of the pass
    rows,       \* generator: the rows built so far
    calls,      \* generator: per row, the requests sent to the text service
    written     \* generator: the rows of the TSV each invocation wrote

vars == <<script, pc, header, argcol, col, x, fit, kArg, thArg, grid, fs, out,
          run, hfToken, params, rng, lifespans, idx, rows, calls, written>>

-----------------------------------------------------------------------------
(* Bounds of the model *)

\* longest column of a modelled TSV
MaxLen == 3
\* points per axis of the likelihood grid (180 in the program)
GridN == 3

-----------------------------------------------------------------------------
(* Extended numbers *)

F(v) == <<"fin", v>>
NaN == <<"nan", 0>>
PInf == <<"inf", 1>>
NInf == <<"inf", -1>>
Junk == <<"str", 0>>

IsFin(a) == a[1] = "fin"
IsNaN(a) == a[1] = "nan"
IsInf(a) == a[1] = "inf"

\* a < b, a <= b as IEEE comparisons: false when either is NaN
XLess(a, b) ==
    IF IsNaN(a) \/ IsNaN(b) THEN FALSE
    ELSE IF IsInf(a) THEN a[2] = -1 /\ b # NInf
    ELSE IF IsInf(b) THEN b[2] = 1
    ELSE a[2] < b[2]

XLeq(a, b) == ~IsNaN(a) /\ ~IsNaN(b) /\ (a = b \/ XLess(a, b))

XNeg(a) == IF IsNaN(a) THEN NaN ELSE <<a[1], -a[2]>>

XAdd(a, b) ==
    IF IsNaN(a) \/ IsNaN(b) THEN NaN
    ELSE IF IsInf(a) /\ IsInf(b) THEN (IF a[2] = b[2] THEN a ELSE NaN)
    ELSE IF IsInf(a) THEN a
    ELSE IF IsInf(b) THEN b
    ELSE F(a[2] + b[2])

XSub(a, b) == XAdd(a, XNeg(b))

Sign(v) == IF v > 0 THEN 1 ELSE IF v < 0 THEN -1 ELSE 0
Abs(v) == IF v < 0 THEN -v ELSE v
Max(a, b) == IF a >= b THEN a ELSE b

-----------------------------------------------------------------------------
(* Fixed-point units and the library functions log and gammaln *)

\* k is held in units of 1e-4, theta in units of 1e-7, log-likelihoods in
\* tenths; sample values are whole months.
KU == 10000
TU == 10000000
LLS == 10

\* ln(num/den) in thousandths, num > 0, den > 0: halve or double into [1, 2),
\* then 2*atanh((y-1)/(y+1)) by its series.
RECURSIVE LnM(_, _)
LnM(num, den) ==
    IF num >= 2 * den THEN 693 + LnM(num, 2 * den)
    ELSE IF num < den THEN LnM(2 * num, den) - 693
    ELSE LET s == (den \div 50000) + 1
             n1 == num \div s
             d1 == den \div s
             t == ((n1 - d1) * 1000) \div (n1 + d1)
             t3 == (t * t * t) \div 1000000
             t5 == (t3 * t * t) \div 1000000
         IN 2 * (t + (t3 \div 3) + (t5 \div 5))

\* rounding from thousandths to the log-likelihood unit
ToLL(m) == (m * LLS + 500) \div 1000

\* np.log on a sample value (whole months, > 0), in log-likelihood units
LogSample(v) == ToLL(LnM(v, 1))

\* np.log(theta): NaN below zero, -inf at zero
LogTheta(tq) ==
    IF tq > 0 THEN F(ToLL(LnM(tq, TU)))
    ELSE IF tq = 0 THEN NInf ELSE NaN

\* ln|Gamma(k)| in thousandths for k = kq/KU not a pole: the recurrence
\* lnGamma(k) = lnGamma(k+1) - ln|k| up to k >= 3, then Stirling's series.
RECURSIVE LnGammaM(_)
LnGammaM(kq) ==
    IF kq < 3 * KU THEN LnGammaM(kq + KU) - LnM(Abs(kq), KU)
    ELSE (((kq - (KU \div 2)) * LnM(kq, KU)) \div KU) - ((kq * 1000) \div KU)
         + 919 + ((1000 * KU) \div (12 * kq))

\* scipy.special.gammaln(k): +inf at the poles 0, -1, -2, ...
GammaLn(kq) ==
    IF kq <= 0 /\ kq % KU = 0 THEN PInf ELSE F(ToLL(LnGammaM(kq)))

-----------------------------------------------------------------------------
(* Input files and command lines of the estimator and the renderer *)

\* column names a modelled TSV may hold, and the values --col may take
FileNames == {"id", "lifespan_months"}
ColArgs == {"lifespan_months", "months", "id"}
NoCol == ""

Columns == [name : FileNames, numeric : BOOLEAN]

Headers ==
    { h \in [{1} -> Columns] \cup [{1, 2} -> Columns] :
        \A i, j \in DOMAIN h : i # j => h[i].name # h[j].name }

\* cells of a column pandas reads as numeric, and of any column
NumCells == {F(-2), F(0), F(1), F(3), NaN, PInf}
AllCells == NumCells \cup {Junk}

SeqsUpTo(S, n) == UNION {[1..m -> S] : m \in 0..n}

\* the column of the specification's end-to-end example: 1.0, 2.0, ..., 10.0
SpecExample == [i \in 1..10 |-> F(i)]

\* the contents a column of the given dtype can have: a numeric column has at
\* least one row and only numbers; any other holds a non-number or no row
ColumnValues(numeric) ==
    IF numeric
    THEN {c \in SeqsUpTo(NumCells, MaxLen) : Len(c) >= 1} \cup {SpecExample}
    ELSE {c \in SeqsUpTo(AllCells, MaxLen) :
            Len(c) = 0 \/ \E i \in DOMAIN c : c[i] = Junk}

HasCol(h, c) == \E i \in DOMAIN h : h[i].name = c
ColOf(h, c) == h[CHOOSE i \in DOMAIN h : h[i].name = c]

\* the first column of numeric dtype, in file order
NumericCols(h) == {i \in DOMAIN h : h[i].numeric}
FirstNumeric(h) ==
    IF NumericCols(h) = {} THEN NoCol
    ELSE h[CHOOSE i \in NumericCols(h) : \A j \in NumericCols(h) : i <= j].name

\* 50_gamma_mle.py main: --col, else lifespan_months, else the first numeric
SelectColEstimator(h, c) ==
    IF HasCol(h, c) THEN c
    ELSE IF HasCol(h, "lifespan_months") THEN "lifespan_months"
    ELSE FirstNumeric(h)

\* 60_plot_gamma.py _load_values: --col, else the first numeric
SelectColRenderer(h, c) ==
    IF HasCol(h, c) THEN c ELSE FirstNumeric(h)

\* pd.to_numeric(errors="coerce"): what is not a number becomes NaN
ToNumeric(c) == [i \in DOMAIN c |-> IF c[i] = Junk THEN NaN ELSE c[i]]

\* mutants of the filter: (x >= 0) for (x > 0), and np.isfinite left out
IsNonNegativeFinite(a) == IsFin(a) /\ a[2] >= 0
IsPositiveOrInfinite(a) == (IsFin(a) \/ IsInf(a)) /\ a[2] > 0

\* np.isfinite(x) & (x > 0)
IsPositiveFinite(a) == IsFin(a) /\ a[2] > 0
FilterPositive(xs) == SelectSeq(xs, IsPositiveFinite)

RECURSIVE XSum(_)
XSum(xs) == IF xs = <<>> THEN F(0) ELSE XAdd(Head(xs), XSum(Tail(xs)))

\* x.mean(), in thousandths of a month
NpMean(xs) ==
    LET s == XSum(xs)
    IN  IF IsFin(s) THEN F((s[2] * 1000) \div Len(xs)) ELSE s

\* scipy's gamma.fit(x, floc=0): some positive (k, theta), or an error raised
\* by the solver (as on a sample whose values are all equal)
FitOutcomes ==
    { [ok |-> TRUE, k |-> KU, theta |-> TU],
      [ok |-> TRUE, k |-> 2 * KU, theta |-> 3 * TU],
      [ok |-> FALSE, k |-> 0, theta |-> 0] }

\* fit_gamma_loc0 past its empty-sample check: (k, theta, n, mean)
FitResult(xs, kt) ==
    LET xf == FilterPositive(xs)
    IN  <<kt.k, kt.theta, Len(xf), NpMean(xf)>>

\* what a step that ends by writing a file can end in: the file written, or
\* an exception (from the drawing, makedirs, open or savefig) and no file
WriteOutcomes == {"ok", "fail"}
Written(f, art, how) ==
    IF how = "ok" THEN [f EXCEPT ![art] = "complete"] ELSE f

Artifacts == {"report", "hist", "contour", "tsv"}

-----------------------------------------------------------------------------
(* plot_ll_contour: the grid, the log-likelihood and its normalisation *)

\* the lower clamps of the grid: 1e-3 in units of k, 1e-6 in units of theta
KClamp == 10
ThClamp == 10

\* values --k and --theta take in the model: zero, below the clamp, ordinary
\* (and a negative theta)
KArgs == {0, 2, KU, 2 * KU}
ThArgs == {0 - TU, 0, 2, TU}

\* np.linspace(lo, hi, n)
Linspace(lo, hi, n) == [j \in 1..n |-> lo + (((j - 1) * (hi - lo)) \div (n - 1))]

GridK(k0) == Linspace(Max(KClamp, k0 \div 4), 4 * k0, GridN)
GridT(t0) == Linspace(Max(ThClamp, t0 \div 4), 4 * t0, GridN)

\* np.meshgrid(K, T, indexing="xy"): both of shape (len(T), len(K))
MeshK(K, T) == [i \in DOMAIN T |-> [j \in DOMAIN K |-> K[j]]]
MeshT(K, T) == [i \in DOMAIN T |-> [j \in DOMAIN K |-> T[i]]]

RECURSIVE SumLog(_)
SumLog(xs) == IF xs = <<>> THEN 0 ELSE LogSample(Head(xs)[2]) + SumLog(Tail(xs))

RECURSIVE SumVal(_)
SumVal(xs) == IF xs = <<>> THEN 0 ELSE Head(xs)[2] + SumVal(Tail(xs))

\* s2 / theta
SumOverTheta(s2, tq) ==
    IF tq = 0 THEN (IF s2 > 0 THEN PInf ELSE IF s2 < 0 THEN NInf ELSE NaN)
    ELSE IF Abs(tq) >= 1000 THEN F((s2 * TU) \div (tq \div LLS))
    ELSE F(((s2 * TU) \div tq) * LLS)

\* n * k * ln(theta)
NKLogTheta(n, kq, tq) ==
    LET lt == LogTheta(tq)
    IN  IF IsNaN(lt) THEN NaN
        ELSE IF IsInf(lt)
             THEN (IF n * kq = 0 THEN NaN ELSE <<"inf", Sign(n * kq) * lt[2]>>)
        ELSE F((n * kq * lt[2]) \div KU)

\* n * ln(Gamma(k))
NGammaLn(n, kq) ==
    LET g == GammaLn(kq)
    IN  IF IsFin(g) THEN F(n * g[2])
        ELSE IF n = 0 THEN NaN ELSE g

\* l(k, theta) = (k-1)*s1 - s2/theta - n*k*ln(theta) - n*ln(Gamma(k))
LogLike(kq, tq, n, s1, s2) ==
    XSub(XSub(XSub(F(((kq - KU) * s1) \div KU), SumOverTheta(s2, tq)),
              NKLogTheta(n, kq, tq)),
         NGammaLn(n, kq))

\* ll over the mesh: ll[i][j] is evaluated at (KK[i][j], TT[i][j])
LogLikeGrid(xs, K, T) ==
    LET n == Len(xs)
        s1 == SumLog(xs)
        s2 == SumVal(xs)
        KK == MeshK(K, T)
        TT == MeshT(K, T)
    IN  [i \in DOMAIN T |-> [j \in DOMAIN K |->
            LogLike(KK[i][j], TT[i][j], n, s1, s2)]]

\* np.nanmax: the largest cell that is not NaN; NaN when every cell is NaN
NanMax(a) ==
    LET cells == {a[i][j] : i \in DOMAIN a, j \in DOMAIN a[1]} \ {NaN}
    IN  IF cells = {} THEN NaN
        ELSE CHOOSE m \in cells : \A c \in cells : XLeq(c, m)

\* mutant of the normalisation: the first cell subtracted, not the maximum
PeakRelativeToFirstCell(ll) ==
    [i \in DOMAIN ll |-> [j \in DOMAIN ll[i] |-> XSub(ll[i][j], ll[1][1])]]

\* z = ll - ll_max
PeakRelative(ll) ==
    LET m == NanMax(ll)
    IN  [i \in DOMAIN ll |-> [j \in DOMAIN ll[i] |-> XSub(ll[i][j], m)]]

\* z.T
Transpose(a) == [i \in DOMAIN a[1] |-> [j \in DOMAIN a |-> a[j][i]]]

\* the array plot_ll_contour hands to plt.contour(K, T, .)
ContourArg(z) == Transpose(z)

NoGrid == [K |-> <<>>, T |-> <<>>, z |-> <<>>, shown |-> <<>>]

ContourGrid(xs, k0, t0) ==
    LET K == GridK(k0)
        T == GridT(t0)
        z == PeakRelative(LogLikeGrid(xs, K, T))
    IN  [K |-> K, T |-> T, z |-> z, shown |-> ContourArg(z)]

-----------------------------------------------------------------------------
(* 50_gamma_mle.py: main *)

NoFit == <<>>
NoFiles == [a \in Artifacts |-> "absent"]
NoParams == [seed |-> 0, nFA |-> 0, nFB |-> 0, nOA |-> 0, nOB |-> 0]
NoWritten == [r \in {1, 2} |-> [state |-> "absent", rows |-> <<>>]]

plotVars == <<kArg, thArg, grid>>
genVars == <<run, hfToken, params, rng, lifespans, idx, rows, calls, written>>

\* lines 56-66: read the TSV, select the column, coerce it to numbers.
\* With no column to select, columns[0] raises IndexError.
EstimatorRead ==
    /\ script = "estimator" /\ pc = "read"
    /\ LET c == SelectColEstimator(header, argcol)
       IN  IF c = NoCol
           THEN /\ pc' = "aborted"
                /\ UNCHANGED <<col, x>>
           ELSE /\ \E cells \in ColumnValues(ColOf(header, c).numeric) :
                      x' = ToNumeric(cells)
                /\ col' = c
                /\ pc' = "fit"
    /\ UNCHANGED <<script, header, argcol, fit, plotVars, fs, out, genVars>>

\* line 68: fit_gamma_loc0(x)
EstimatorFit ==
    /\ script = "estimator" /\ pc = "fit"
    /\ IF Len(FilterPositive(x)) = 0
       THEN /\ pc' = "aborted"
            /\ UNCHANGED fit
       ELSE \E kt \in FitOutcomes :
              IF kt.ok
              THEN /\ fit' = FitResult(x, kt)
                   /\ pc' = "write"
              ELSE /\ pc' = "aborted"
                   /\ UNCHANGED fit
    /\ UNCHANGED <<script, header, argcol, col, x, plotVars, fs, out, genVars>>

\* line 69: write_report(...)
EstimatorWrite ==
    /\ script = "estimator" /\ pc = "write"
    /\ \E how \in WriteOutcomes :
         /\ fs' = Written(fs, "report", how)
         /\ pc' = IF how = "ok" THEN "print" ELSE "aborted"
    /\ UNCHANGED <<script, header, argcol, col, x, fit, plotVars, out, genVars>>

\* line 72: print k, theta, n, mean
EstimatorPrint ==
    /\ script = "estimator" /\ pc = "print"
    /\ out' = Append(out, fit)
    /\ pc' = "done"
    /\ UNCHANGED <<script, header, argcol, col, x, fit, plotVars, fs, genVars>>

-----------------------------------------------------------------------------
(* 60_plot_gamma.py: main *)

\* _load_values, lines 31-37: read the TSV, select the column, coerce it
RendererLoad ==
    /\ script = "renderer" /\ pc = "read"
    /\ LET c == SelectColRenderer(header, argcol)
       IN  IF c = NoCol
           THEN /\ pc' = "aborted"
                /\ UNCHANGED <<col, x>>
           ELSE /\ \E cells \in ColumnValues(ColOf(header, c).numeric) :
                      x' = ToNumeric(cells)
                /\ col' = c
                /\ pc' = "filter"
    /\ UNCHANGED <<script, header, argcol, fit, plotVars, fs, out, genVars>>

\* _load_values, lines 38-41: keep the positive finite values
RendererFilter ==
    /\ script = "renderer" /\ pc = "filter"
    /\ x' = FilterPositive(x)
    /\ pc' = IF Len(x') = 0 THEN "aborted" ELSE "hist"
    /\ UNCHANGED <<script, header, argcol, col, fit, plotVars, fs, out, genVars>>

\* line 109: plot_hist_with_pdf(x, args.k, args.theta, ...)
RendererHist ==
    /\ script = "renderer" /\ pc = "hist"
    /\ \E k0 \in KArgs, t0 \in ThArgs :
         /\ kArg' = k0
         /\ thArg' = t0
    /\ \E how \in WriteOutcomes :
         /\ fs' = Written(fs, "hist", how)
         /\ pc' = IF how = "ok" THEN "contour" ELSE "aborted"
    /\ UNCHANGED <<script, header, argcol, col, x, fit, grid, out, genVars>>

\* line 110: plot_ll_contour(x, args.k, args.theta, ...)
RendererContour ==
    /\ script = "renderer" /\ pc = "contour"
    /\ grid' = ContourGrid(x, kArg, thArg)
    /\ \E how \in WriteOutcomes :
         /\ fs' = Written(fs, "contour", how)
         /\ pc' = IF how = "ok" THEN "print" ELSE "aborted"
    /\ UNCHANGED <<script, header, argcol, col, x, fit, kArg, thArg, out, genVars>>

\* lines 111-112: the two confirmation lines
RendererPrint ==
    /\ script = "renderer" /\ pc = "print"
    /\ out' = out \o <<"hist", "contour">>
    /\ pc' = "done"
    /\ UNCHANGED <<script, header, argcol, col, x, fit, plotVars, fs, genVars>>

-----------------------------------------------------------------------------
(* The estimator and the renderer, each run once on some TSV *)

Init ==
    /\ script \in {"estimator", "renderer"}
    /\ pc = "read"
    /\ header \in Headers
    /\ argcol \in ColArgs
    /\ col = NoCol
    /\ x = <<>>
    /\ fit = NoFit
    /\ kArg = 0
    /\ thArg = 0
    /\ grid = NoGrid
    /\ fs = NoFiles
    /\ out = <<>>
    /\ run = 0
    /\ hfToken = FALSE
    /\ params = NoParams
    /\ rng = 0
    /\ lifespans = <<>>
    /\ idx = 0
    /\ rows = <<>>
    /\ calls = <<>>
    /\ written = NoWritten

Next ==
    \/ EstimatorRead
    \/ EstimatorFit
    \/ EstimatorWrite
    \/ EstimatorPrint
    \/ RendererLoad
    \/ RendererFilter
    \/ RendererHist
    \/ RendererContour
    \/ RendererPrint

Spec == Init /\ [][Next]_vars

-----------------------------------------------------------------------------
(* Claims about the estimator and the renderer *)

Ended == pc \in {"done", "aborted"}

\* the artifacts each script writes
Outputs(sc) ==
    IF sc = "estimator" THEN {"report"}
    ELSE IF sc = "renderer" THEN {"hist", "contour"}
    ELSE {"tsv"}

\* C1: every run ends with all of its script's artifacts written or with none
\* of them written; in particular the renderer never ends with the histogram
\* image on disk and no contour image.
C1_NoPartialSuccess ==
    Ended =>
        \/ \A a \in Outputs(script) : fs[a] = "complete"
        \/ \A a \in Outputs(script) : fs[a] = "absent"

\* no finite, strictly positive value among the coerced values
NoPositiveFinite(xs) ==
    \A i \in DOMAIN xs : ~(xs[i][1] = "fin" /\ xs[i][2] > 0)

\* C2: when the selected column holds no finite, strictly positive value, the
\* estimator gets no further than fit_gamma_loc0 and the renderer no further
\* than _load_values: the run is aborted there, no plot function or
\* write_report is reached and no output file exists.
C2_EmptySampleFailsFast ==
    (col # NoCol /\ NoPositiveFinite(x)) =>
        /\ pc \in {"fit", "filter", "aborted"}
        /\ fs = NoFiles
        /\ fit = NoFit
        /\ grid = NoGrid
        /\ out = <<>>

\* the estimator has aborted on a selected column that has rows, none of
\* them positive and finite
C2_Witness ==
    /\ script = "estimator" /\ pc = "aborted"
    /\ col # NoCol /\ x # <<>> /\ NoPositiveFinite(x)

\* the fallback order of the specification: --col, else lifespan_months, else
\* the first numeric column, else nothing
SpecSelect(h, c) ==
    IF \E i \in DOMAIN h : h[i].name = c THEN c
    ELSE IF \E i \in DOMAIN h : h[i].name = "lifespan_months"
         THEN "lifespan_months"
    ELSE IF \E i \in DOMAIN h : h[i].numeric
         THEN h[CHOOSE i \in DOMAIN h :
                  h[i].numeric /\ \A j \in 1..(i - 1) : ~h[j].numeric].name
    ELSE NoCol

\* C3: both scripts read the column the fallback order names, and abort when
\* it names none.
C3_SameFallbackOrder ==
    pc # "read" =>
        IF SpecSelect(header, argcol) = NoCol
        THEN pc = "aborted" /\ col = NoCol
        ELSE col = SpecSelect(header, argcol)

\* the finite, strictly positive entries of xs: how many, and their sum
PositiveIndices(xs) == {i \in DOMAIN xs : xs[i][1] = "fin" /\ xs[i][2] > 0}

RECURSIVE SumAt(_, _)
SumAt(xs, I) ==
    IF I = {} THEN 0
    ELSE LET i == CHOOSE j \in I : TRUE
         IN  xs[i][2] + SumAt(xs, I \ {i})

\* C6: the n fit_gamma_loc0 returns is the number of finite, strictly positive
\* input values and the mean it returns is the arithmetic mean of those values
\* only; for 1.0, ..., 10.0 they are 10 and 5.5.
C6_FitUsesPositiveFiniteOnly ==
    (script = "estimator" /\ fit # NoFit) =>
        LET I == PositiveIndices(x)
        IN  /\ fit[3] = Cardinality(I)
            /\ fit[4] = F((SumAt(x, I) * 1000) \div Cardinality(I))
            /\ (x = SpecExample => fit[3] = 10 /\ fit[4] = F(5500))

\* a fit of a column that mixes a missing, a non-positive or infinite and a
\* positive value
C6_Witness ==
    /\ script = "estimator" /\ fit # NoFit
    /\ \E i \in DOMAIN x : x[i] = NaN
    /\ \E i \in DOMAIN x : x[i] \in {F(0), F(-2), PInf}
    /\ fit[3] = 1

GridCells(a) == {a[i][j] : i \in DOMAIN a, j \in DOMAIN a[1]}

\* C8: for a non-empty positive sample and positive k0, theta0, after the
\* subtraction of the grid's maximum the largest cell is exactly 0 and every
\* cell is at most 0.
C8_PeakIsZero ==
    (grid # NoGrid /\ kArg > 0 /\ thArg > 0 /\ x # <<>> /\ ~NoPositiveFinite(x)) =>
        /\ F(0) \in GridCells(grid.z)
        /\ \A c \in GridCells(grid.z) : IsFin(c) /\ c[2] <= 0

\* a normalised grid of positive parameters with a cell below the peak
C8_Witness ==
    /\ grid # NoGrid /\ kArg > 0 /\ thArg > 0
    /\ \E c \in GridCells(grid.z) : IsFin(c) /\ c[2] < 0

\* C9: the array given to the contour renderer holds, in row i and column j
\* (vertical coordinate T[i], horizontal coordinate K[j]), the peak-relative
\* log-likelihood at k = K[j], theta = T[i].
C9_ContourOrientation ==
    grid # NoGrid =>
        LET n == Len(x)
            s1 == SumLog(x)
            s2 == SumVal(x)
            ll == [i \in DOMAIN grid.T |-> [j \in DOMAIN grid.K |->
                     LogLike(grid.K[j], grid.T[i], n, s1, s2)]]
            peak == NanMax(ll)
        IN  \A i \in DOMAIN grid.T, j \in DOMAIN grid.K :
                grid.shown[i][j] = XSub(ll[i][j], peak)

\* C11: for a reference point with k0 > 0 and theta0 > 0, on each axis the
\* grid's lower bound is not greater than its upper bound, every grid value is
\* strictly positive, and the reference point lies between the two bounds.
C11_GridContainsReference ==
    (grid # NoGrid /\ kArg > 0 /\ thArg > 0) =>
        LET k_lo == grid.K[1]
            k_hi == grid.K[Len(grid.K)]
            th_lo == grid.T[1]
            th_hi == grid.T[Len(grid.T)]
        IN  /\ k_lo <= k_hi /\ th_lo <= th_hi
            /\ \A j \in DOMAIN grid.K : grid.K[j] > 0
            /\ \A i \in DOMAIN grid.T : grid.T[i] > 0
            /\ k_lo <= kArg /\ kArg <= k_hi
            /\ th_lo <= thArg /\ thArg <= th_hi

-----------------------------------------------------------------------------
(* generate_data.py: random numbers, dates and the pick_* helpers *)

\* most rows one invocation writes, over its four passes
MaxRows == 3

\* random.Random and numpy's Generator are modelled as linear congruential
\* generators over 16 bits: a draw steps the state and reads it
RngM == 65536
Step(s) == (25173 * s + 13849) % RngM
NpStep(s) == (4005 * s + 12345) % RngM

\* mutant of the seeding: random.Random() seeded by the system, so that each
\* invocation starts elsewhere
SeedRngUnseeded(seed) == (run * 40503 + 1) % RngM

\* random.Random(seed), np.random.default_rng(seed)
SeedRng(seed) == (seed * 40503 + 1) % RngM
SeedNp(seed) == (seed * 30011 + 7) % RngM

\* _randbelow(n) and random() in percent, read from the state after a draw
RandBelow(s, n) == (s * n) \div RngM
Percent(s) == (s * 100) \div RngM

\* (purchase_end - purchase_start).days for the default 2023-01-01..2024-12-31
SpanDays == 730

\* rand_date_ymd: days after purchase_start
RandDate(s) == RandBelow(s, SpanDays + 1)

\* add_months_as_days, then strftime: whole days added for m hundredths of a
\* month at 30.44 days a month
DaysOf(m) == (m * 3044) \div 10000

\* make_order_id: nine draws from 36 characters
RECURSIVE OrderChars(_, _)
OrderChars(s, n) ==
    IF n = 0 THEN <<>>
    ELSE <<RandBelow(Step(s), 36)>> \o OrderChars(Step(s), n - 1)

RECURSIVE StepN(_, _)
StepN(s, n) == IF n = 0 THEN s ELSE StepN(Step(s), n - 1)

\* pick_stars_failure: [1,2,3] with weights 0.6, 0.3, 0.1
PickStarsFailure(s) ==
    IF Percent(s) < 60 THEN 1 ELSE IF Percent(s) < 90 THEN 2 ELSE 3

\* pick_stars_other: [3,4,5,2] with weights 0.2, 0.4, 0.35, 0.05
PickStarsOther(s) ==
    IF Percent(s) < 20 THEN 3
    ELSE IF Percent(s) < 60 THEN 4
    ELSE IF Percent(s) < 95 THEN 5 ELSE 2

\* pick_verified
PickVerified(s) == IF Percent(s) < 85 THEN "true" ELSE "false"

\* rng.uniform(0.2, 18.0), in hundredths of a month
Uniform(s) == 20 + ((1780 * s) \div RngM)

\* the default Gamma parameters of the two brands
KAlpha == 2
ThAlpha == 4
KBeta == 3
ThBeta == 3

\* np.finfo(float).eps, which is 0 in hundredths of a month
Eps == 0

\* sample_gamma_lifespans(k, theta, n, seed): n draws of its own generator,
\* each at least eps, in hundredths of a month
RECURSIVE GammaDraws(_, _, _, _)
GammaDraws(k, th, n, s) ==
    IF n <= 0 THEN <<>>
    ELSE <<Max((NpStep(s) * (200 * k * th)) \div RngM, Eps)>>
         \o GammaDraws(k, th, n - 1, NpStep(s))

SampleGammaLifespans(k, th, n, seed) == GammaDraws(k, th, n, SeedNp(seed))

\* f"{m:.2f}" and "": a string is the sequence of what it holds
Fixed2(m) == <<m>>
EmptyString == <<>>

\* {m:.1f}: tenths of a month
Fixed1(m) == (m + 5) \div 10

-----------------------------------------------------------------------------
(* generate_data.py: the text of a row *)

TitleLine(v) == [tag |-> "TITLE", val |-> v]
BodyLine(v) == [tag |-> "BODY", val |-> v]
OtherLine(v) == [tag |-> "OTHER", val |-> v]

\* texts the service may generate: with both lines, one of them, or neither
Texts ==
    { <<TitleLine("Died fast"), BodyLine("It quit.")>>,
      <<OtherLine("Sure!"), TitleLine("Fine")>>,
      <<BodyLine("Came on time.")>>,
      <<OtherLine("I cannot help with that.")>> }

\* what a request to the service ends in: an exception of urlopen, a JSON
\* value that is neither of the expected shapes, or one of the two shapes
Replies ==
    { [kind |-> "timeout", text |-> <<>>],
      [kind |-> "connection", text |-> <<>>],
      [kind |-> "dict", text |-> <<>>] }
    \cup { [kind |-> "list", text |-> t] : t \in Texts }
    \cup { [kind |-> "str", text |-> <<TitleLine("Fine"), BodyLine("Works.")>>] }

NoReply == [kind |-> "none", text |-> <<>>]
FailureKinds == {"none", "timeout", "connection", "dict"}

\* mutant of _hf_generate: no try/except around the request
HfGenerateUncaught(tok, reply) ==
    IF ~tok THEN [text |-> <<>>, sent |-> 0, raised |-> FALSE]
    ELSE IF reply.kind \in {"list", "str"}
         THEN [text |-> reply.text, sent |-> 1, raised |-> FALSE]
    ELSE [text |-> <<>>, sent |-> 1,
          raised |-> reply.kind \in {"timeout", "connection"}]

\* _hf_generate: the text returned, the requests sent, and whether an
\* exception left the function
HfGenerate(tok, reply) ==
    IF ~tok THEN [text |-> <<>>, sent |-> 0, raised |-> FALSE]
    ELSE IF reply.kind \in {"list", "str"}
         THEN [text |-> reply.text, sent |-> 1, raised |-> FALSE]
    ELSE [text |-> <<>>, sent |-> 1, raised |-> FALSE]

\* parse_title_body: the last TITLE line and the last BODY line, else ""
RECURSIVE ParseTitleBody(_, _, _)
ParseTitleBody(lines, title, body) ==
    IF lines = <<>> THEN <<title, body>>
    ELSE LET l == Head(lines)
         IN  IF l.tag = "TITLE" THEN ParseTitleBody(Tail(lines), l.val, body)
             ELSE IF l.tag = "BODY" THEN ParseTitleBody(Tail(lines), title, l.val)
             ELSE ParseTitleBody(Tail(lines), title, body)

\* sizes of FAILURE_TITLES, FAILURE_BODIES, OTHER_TITLES, OTHER_BODIES
NFailureTitles == 5
NFailureBodies == 4
NOtherTitles == 5
NOtherBodies == 5

\* a title or body: written by the service, or template number idx of its
\* pool, a failure body formatted with the months (else months is -1)
FromService(v) == [src |-> "service", idx |-> 0, months |-> 0 - 1, txt |-> v]
FromTemplate(i, m) == [src |-> "template", idx |-> i, months |-> m, txt |-> ""]

\* gen_failure_text and gen_other_text: (title, body), the generator state
\* after the fallback draws, the requests sent and whether an exception left
GenText(failure, months, s, tok, reply) ==
    LET g == IF tok THEN HfGenerate(tok, reply)
             ELSE [text |-> <<>>, sent |-> 0, raised |-> FALSE]
        tb == ParseTitleBody(g.text, "", "")
        s1 == IF tb[1] = "" THEN Step(s) ELSE s
        s2 == IF tb[2] = "" THEN Step(s1) ELSE s1
        nt == IF failure THEN NFailureTitles ELSE NOtherTitles
        nb == IF failure THEN NFailureBodies ELSE NOtherBodies
    IN  [ title |-> IF tb[1] = "" THEN FromTemplate(RandBelow(s1, nt), 0 - 1)
                    ELSE FromService(tb[1]),
          body |-> IF tb[2] = ""
                   THEN FromTemplate(RandBelow(s2, nb),
                                     IF failure THEN Fixed1(months) ELSE 0 - 1)
                   ELSE FromService(tb[2]),
          rng |-> s2, sent |-> g.sent, raised |-> g.raised ]

-----------------------------------------------------------------------------
(* generate_data.py: make_dataset *)

Seeds == {1234, 7}

\* seeds and row counts of the modelled invocations
ParamSets ==
    { q \in [seed : Seeds, nFA : 0..MaxRows, nFB : 0..MaxRows,
             nOA : 0..MaxRows, nOB : 0..MaxRows] :
        q.nFA + q.nFB + q.nOA + q.nOB <= MaxRows }

\* one pass of a failure loop (lines 218-231, 235-247): the row, the generator
\* state after it, the requests sent and whether an exception left
FailureRow(prefix, brand, i, m, s, tok, reply) ==
    LET s1 == Step(s)
        dp == RandDate(s1)
        g == GenText(TRUE, m, s1, tok, reply)
        s2 == Step(g.rng)
        s3 == Step(s2)
    IN  [ row |-> [ rid |-> <<prefix, i>>, brand |-> brand, dp |-> dp,
                    dpost |-> dp + DaysOf(m), title |-> g.title,
                    body |-> g.body, stars |-> PickStarsFailure(s2),
                    verified |-> PickVerified(s3),
                    order_id |-> OrderChars(s3, 9), token |-> Fixed2(m) ],
          rng |-> StepN(s3, 9), sent |-> g.sent, raised |-> g.raised ]

\* one pass of a non-failure loop (lines 250-264, 267-280)
OtherRow(prefix, brand, i, s, tok, reply) ==
    LET s1 == Step(s)
        dp == RandDate(s1)
        s2 == Step(s1)
        m == Uniform(s2)
        g == GenText(FALSE, m, s2, tok, reply)
        s3 == Step(g.rng)
        s4 == Step(s3)
    IN  [ row |-> [ rid |-> <<prefix, i + 1>>, brand |-> brand, dp |-> dp,
                    dpost |-> dp + DaysOf(m), title |-> g.title,
                    body |-> g.body, stars |-> PickStarsOther(s3),
                    verified |-> PickVerified(s4),
                    order_id |-> OrderChars(s4, 9), token |-> EmptyString ],
          rng |-> StepN(s4, 9), sent |-> g.sent, raised |-> g.raised ]

\* mutant of the swap in random.shuffle: x[i] = x[j] alone
SwapLost(xs, a, b) == [xs EXCEPT ![a] = xs[b]]

\* x[i], x[j] = x[j], x[i]
Swap(xs, a, b) == [xs EXCEPT ![a] = xs[b], ![b] = xs[a]]

\* random.shuffle: for i from len-1 down to 1, swap x[i] and x[randbelow(i+1)]
RECURSIVE ShuffleFrom(_, _, _)
ShuffleFrom(xs, i, s) ==
    IF i < 1 THEN [rows |-> xs, rng |-> s]
    ELSE LET s1 == Step(s)
         IN  ShuffleFrom(Swap(xs, i + 1, RandBelow(s1, i + 1) + 1), i - 1, s1)

Shuffle(xs, s) == ShuffleFrom(xs, Len(xs) - 1, s)

estVars == <<header, argcol, col, x, fit, kArg, thArg, grid>>

\* the replies the service can give to this process
RepliesNow == IF hfToken THEN Replies ELSE {NoReply}

\* appends the row r built, or aborts when an exception left the row's code
AddRow(r, reply) ==
    IF r.raised
    THEN /\ pc' = "aborted"
         /\ UNCHANGED <<rng, idx, rows, calls>>
    ELSE /\ rows' = Append(rows, r.row)
         /\ rng' = r.rng
         /\ idx' = idx + 1
         /\ calls' = Append(calls, [rid |-> r.row.rid, sent |-> r.sent,
                                    kind |-> reply.kind])
         /\ UNCHANGED pc

\* lines 211-217: seed the generators, draw the Alpha lifespans
GenStart ==
    /\ script = "generator" /\ pc = "start"
    /\ rng' = SeedRng(params.seed)
    /\ lifespans' = SampleGammaLifespans(KAlpha, ThAlpha, params.nFA,
                                         params.seed + 11)
    /\ idx' = 1
    /\ rows' = <<>>
    /\ pc' = "failA"
    /\ UNCHANGED <<script, estVars, fs, out, run, hfToken, params, calls, written>>

\* lines 218-231: one Alpha failure row
GenFailureAlpha ==
    /\ script = "generator" /\ pc = "failA" /\ idx <= Len(lifespans)
    /\ \E reply \in RepliesNow :
         AddRow(FailureRow("rA", "Alpha", idx, lifespans[idx], rng, hfToken,
                           reply), reply)
    /\ UNCHANGED <<script, estVars, fs, out, run, hfToken, params, lifespans, written>>

\* lines 235-247: one Beta failure row
GenFailureBeta ==
    /\ script = "generator" /\ pc = "failB" /\ idx <= Len(lifespans)
    /\ \E reply \in RepliesNow :
         AddRow(FailureRow("rB", "Beta", idx, lifespans[idx], rng, hfToken,
                           reply), reply)
    /\ UNCHANGED <<script, estVars, fs, out, run, hfToken, params, lifespans, written>>

\* lines 250-264: one Alpha non-failure row
GenOtherAlpha ==
    /\ script = "generator" /\ pc = "otherA" /\ idx < params.nOA
    /\ \E reply \in RepliesNow :
         AddRow(OtherRow("rAX", "Alpha", idx, rng, hfToken, reply), reply)
    /\ UNCHANGED <<script, estVars, fs, out, run, hfToken, params, lifespans, written>>

\* lines 267-280: one Beta non-failure row
GenOtherBeta ==
    /\ script = "generator" /\ pc = "otherB" /\ idx < params.nOB
    /\ \E reply \in RepliesNow :
         AddRow(OtherRow("rBX", "Beta", idx, rng, hfToken, reply), reply)
    /\ UNCHANGED <<script, estVars, fs, out, run, hfToken, params, lifespans, written>>

\* a loop is exhausted: on to the next one (line 234 draws the Beta lifespans)
GenNextPass ==
    /\ script = "generator"
    /\ \/ /\ pc = "failA" /\ idx > Len(lifespans)
          /\ lifespans' = SampleGammaLifespans(KBeta, ThBeta, params.nFB,
                                               params.seed + 22)
          /\ idx' = 1
          /\ pc' = "failB"
       \/ /\ pc = "failB" /\ idx > Len(lifespans)
          /\ idx' = 0
          /\ pc' = "otherA"
          /\ UNCHANGED lifespans
       \/ /\ pc = "otherA" /\ idx >= params.nOA
          /\ idx' = 0
          /\ pc' = "otherB"
          /\ UNCHANGED lifespans
       \/ /\ pc = "otherB" /\ idx >= params.nOB
          /\ pc' = "shuffle"
          /\ UNCHANGED <<lifespans, idx>>
    /\ UNCHANGED <<script, estVars, fs, out, run, hfToken, params, rng, rows, calls, written>>

\* line 283: rng.shuffle(rows)
GenShuffle ==
    /\ script = "generator" /\ pc = "shuffle"
    /\ rows' = Shuffle(rows, rng).rows
    /\ rng' = Shuffle(rows, rng).rng
    /\ pc' = "write"
    /\ UNCHANGED <<script, estVars, fs, out, run, hfToken, params, lifespans, idx, calls, written>>

\* lines 286-293: write the header and the rows
GenWrite ==
    /\ script = "generator" /\ pc = "write"
    /\ \E how \in WriteOutcomes :
         /\ fs' = Written(fs, "tsv", how)
         /\ written' = IF how = "ok"
                       THEN [written EXCEPT ![run] =
                                [state |-> "complete", rows |-> rows]]
                       ELSE written
         /\ pc' = IF how = "ok" THEN "print" ELSE "aborted"
    /\ UNCHANGED <<script, estVars, out, run, hfToken, params, rng, lifespans, idx, rows, calls>>

\* line 295: the row-count confirmation
GenPrint ==
    /\ script = "generator" /\ pc = "print"
    /\ out' = Append(out, Len(rows))
    /\ pc' = "done"
    /\ UNCHANGED <<script, estVars, fs, run, hfToken, params, rng, lifespans, idx, rows, calls, written>>

\* the script is invoked again with the same arguments, to another path, in
\* an environment that may hold the credential
GenRerun ==
    /\ script = "generator" /\ pc = "done" /\ run = 1
    /\ run' = 2
    /\ hfToken' \in BOOLEAN
    /\ pc' = "start"
    /\ rng' = 0
    /\ lifespans' = <<>>
    /\ idx' = 0
    /\ rows' = <<>>
    /\ calls' = <<>>
    /\ fs' = NoFiles
    /\ out' = <<>>
    /\ UNCHANGED <<script, estVars, params, written>>

\* the generator, invoked first without the credential and then once more
InitGen ==
    /\ script = "generator"
    /\ pc = "start"
    /\ header = <<>>
    /\ argcol = NoCol
    /\ col = NoCol
    /\ x = <<>>
    /\ fit = NoFit
    /\ kArg = 0
    /\ thArg = 0
    /\ grid = NoGrid
    /\ fs = NoFiles
    /\ out = <<>>
    /\ run = 1
    /\ hfToken = FALSE
    /\ params \in ParamSets
    /\ rng = 0
    /\ lifespans = <<>>
    /\ idx = 0
    /\ rows = <<>>
    /\ calls = <<>>
    /\ written = NoWritten

NextGen ==
    \/ GenStart
    \/ GenFailureAlpha
    \/ GenFailureBeta
    \/ GenOtherAlpha
    \/ GenOtherBeta
    \/ GenNextPass
    \/ GenShuffle
    \/ GenWrite
    \/ GenPrint
    \/ GenRerun

SpecGen == InitGen /\ [][NextGen]_vars

-----------------------------------------------------------------------------
(* Claims about the generator *)

TotalRows == params.nFA + params.nFB + params.nOA + params.nOB

IsFailureId(rid) == rid[1] \in {"rA", "rB"}

\* the row with the given id among rs
RowOf(rs, rid) == rs[CHOOSE i \in DOMAIN rs : rs[i].rid = rid]

ExpectedIds ==
    {<<"rA", i>> : i \in 1..params.nFA} \cup {<<"rB", i>> : i \in 1..params.nFB}
    \cup {<<"rAX", i>> : i \in 1..params.nOA}
    \cup {<<"rBX", i>> : i \in 1..params.nOB}

NonText(r) ==
    <<r.rid, r.brand, r.dp, r.dpost, r.stars, r.verified, r.order_id, r.token>>

\* C10: for a fixed seed and parameters, the rows of a run whose texts come
\* from the service and of a run whose texts come from the templates are in
\* the same order and differ at most in title and body.
C10_NonTextFieldsIndependent ==
    (run = 2 /\ written[1].state = "complete" /\ written[2].state = "complete") =>
        /\ Len(written[1].rows) = Len(written[2].rows)
        /\ \A i \in DOMAIN written[1].rows :
             NonText(written[1].rows[i]) = NonText(written[2].rows[i])

=============================================================================
